---- MODULE Spec2Model ----
(***************************************************************************)
(* KantiKoala (lernapp): the learning-time scheduling algorithm and the    *)
(* event operations around it.                                             *)
(*                                                                         *)
(* Instants are whole minutes on one wall-clock axis (the naive datetimes  *)
(* of src/app.py); day d spans [d*1440, (d+1)*1440).  Durations, which the *)
(* code keeps as float hours, are whole minutes too (0.5 h = 30).          *)
(***************************************************************************)
EXTENDS Integers, Sequences, FiniteSets, TLC

VARIABLES
    db,         \* the Event table: a set of rows with unique ids
    now,        \* datetime.now()
    dow0,       \* weekday (Monday = 0) of day 0 of the time axis
    settings,   \* the user's Settings row with its PrioritySetting rows
    run,        \* per request worker: the state of learning_time_algorithm
    last,       \* outcome of the most recent completed run
    nRuns,      \* runs started so far
    nOps,       \* user operations between runs so far
    web,        \* accounts, browser sessions, grades and the latest response
    probe       \* a call of free_slots on its own: the day and the slots returned

vars == <<db, now, dow0, settings, run, last, nRuns, nOps, web, probe>>

----------------------------------------------------------------------------
(* Time *)

MinutesPerDay == 24 * 60

Hours(h) == h * 60

DAY_START == 8 * 60

DAY_END == 22 * 60

\* SESSION = 0.5 hours
SESSION == 30

\* timedelta(minutes=30)
BUFFER == 30

\* the extension loop's range(window_days + 1, min(22, ...))
EXT_LIMIT == 22

\* datetime.date()
DateOf(t) == t \div MinutesPerDay

\* datetime.time()
TimeOf(t) == t % MinutesPerDay

\* datetime.combine(date, time)
Combine(d, tm) == d * MinutesPerDay + tm

\* date.weekday(): Monday is 0, Saturday 5, Sunday 6
WeekdayOf(d) == (d + dow0) % 7

Min2(a, b) == IF a <= b THEN a ELSE b

Max2(a, b) == IF a >= b THEN a ELSE b

----------------------------------------------------------------------------
(* Events *)

NoId == 0

\* the end of an event stored without one
None == -1

\* (end - start).total_seconds() / 3600, in minutes
Duration(e) == e.end - e.start

RECURSIVE SumDuration(_)
SumDuration(S) ==
    IF S = {} THEN 0
    ELSE LET e == CHOOSE x \in S : TRUE
         IN  Duration(e) + SumDuration(S \ {e})

MaxOf(S) == CHOOSE x \in S : \A y \in S : y <= x

\* the id the table gives a new row: SQLite's INTEGER PRIMARY KEY, max(rowid)+1
NewId(rows) == IF rows = {} THEN 1 ELSE MaxOf({e.id : e \in rows}) + 1

\* Event(title="Learning for ...", start, end, exam_id=exam.id, priority=0, locked=False)
StudyBlock(id, exam, s, e) ==
    [id |-> id, user_id |-> exam.user_id, title |-> "Learning", start |-> s,
     end |-> e, priority |-> 0, all_day |-> FALSE, locked |-> FALSE,
     exam_id |-> exam.id]

\* list.sort(key=to_dt(event.start)): ascending by start, ties in list (id) order
RECURSIVE SortByStart(_)
SortByStart(S) ==
    IF S = {} THEN <<>>
    ELSE LET first == CHOOSE x \in S : \A y \in S :
                          x.start < y.start \/ (x.start = y.start /\ x.id <= y.id)
         IN  <<first>> \o SortByStart(S \ {first})

----------------------------------------------------------------------------
(* free_slots(events, day) *)

\* variant: the cursor moves to the event's end, without the buffer
RECURSIVE SweepNoBuffer(_, _, _, _)
SweepNoBuffer(evs, i, current_start, slots) ==
    IF i > Len(evs) THEN [cur |-> current_start, slots |-> slots]
    ELSE LET ev == evs[i]
             before == IF current_start <= ev.start - BUFFER
                       THEN Append(slots, <<current_start, ev.start - BUFFER>>)
                       ELSE slots
         IN  SweepNoBuffer(evs, i + 1, Max2(current_start, ev.end), before)

\* the sweep over the day's events, in start order
RECURSIVE Sweep(_, _, _, _)
Sweep(evs, i, current_start, slots) ==
    IF i > Len(evs) THEN [cur |-> current_start, slots |-> slots]
    ELSE LET ev == evs[i]
             before == IF current_start <= ev.start - BUFFER
                       THEN Append(slots, <<current_start, ev.start - BUFFER>>)
                       ELSE slots
         IN  Sweep(evs, i + 1, Max2(current_start, ev.end + BUFFER), before)

free_slots(events, day) ==
    LET events_today == {e \in events : DateOf(e.start) = day}
        swept == Sweep(SortByStart(events_today), 1, Combine(day, DAY_START), <<>>)
    IN  IF \E e \in events_today : e.all_day THEN <<>>
        ELSE IF swept.cur <= Combine(day, DAY_END)
             THEN Append(swept.slots, <<swept.cur, Combine(day, DAY_END)>>)
             ELSE swept.slots

\* to_dt(event.end) raises TypeError in the sweep: an event of the day has no
\* end, and the sweep reaches it before it returns at an all-day event
free_slots_raises(events, day) ==
    LET evs == SortByStart({e \in events : DateOf(e.start) = day})
    IN  \E i \in DOMAIN evs :
            evs[i].end = None /\ \A j \in 1..(i - 1) : ~evs[j].all_day

\* slots.sort(key=duration, reverse=True): longest first, ties in list order
RECURSIVE SortSlots(_)
SortSlots(slots) ==
    IF slots = <<>> THEN <<>>
    ELSE LET len(k) == slots[k][2] - slots[k][1]
             i == CHOOSE k \in 1..Len(slots) :
                      /\ \A j \in 1..Len(slots) : len(j) <= len(k)
                      /\ \A j \in 1..(k - 1) : len(j) < len(k)
             rest == [j \in 1..(Len(slots) - 1) |->
                          IF j < i THEN slots[j] ELSE slots[j + 1]]
         IN  <<slots[i]>> \o SortSlots(rest)

----------------------------------------------------------------------------
(* The calendars, settings and clocks the model starts from *)

\* runs a behaviour may start
MaxRuns == 2

\* events from outside (an edit, a day passing, a worker dying) a behaviour may hold
MaxOps == 1

User == "alice"

Workers == {"w1", "w2"}

UserEvent(id, title, s, e, prio, allDay) ==
    [id |-> id, user_id |-> User, title |-> title, start |-> s, end |-> e,
     priority |-> prio, all_day |-> allDay, locked |-> TRUE, exam_id |-> NoId]

\* the day of the exams; day 0 is the first "today"
ExamDay == 3

\* rows made by create_event: two exams, a busy event over the preferred
\* hour, and all-day events as a date-only start with or without a later end
ExamA == UserEvent(1, "A", Combine(ExamDay, Hours(9)), Combine(ExamDay, Hours(11)), 1, FALSE)

ExamB == UserEvent(2, "B", Combine(ExamDay, Hours(13)), Combine(ExamDay, Hours(15)), 2, FALSE)

Busy == UserEvent(3, "busy", Combine(ExamDay - 1, Hours(18)),
                  Combine(ExamDay - 1, Hours(19) + 30), 5, FALSE)

AllDayOpen == UserEvent(4, "trip", Combine(ExamDay - 1, 0), Combine(ExamDay - 1, 0), 5, TRUE)

AllDayFull == UserEvent(4, "trip", Combine(ExamDay - 1, 0), Combine(ExamDay, 0), 5, TRUE)

\* an exam of the morning of day 0, over when the first run starts
OldExam == UserEvent(5, "old", Combine(0, Hours(9)), Combine(0, Hours(11)), 1, FALSE)

\* a study block of exam A that the user stretched to three hours and saved
DoneBlock ==
    [StudyBlock(6, ExamA, Combine(ExamDay - 1, Hours(12)), Combine(ExamDay - 1, Hours(15)))
        EXCEPT !.locked = TRUE]

\* a second exam that carries the title of exam A
ExamTwin == [ExamB EXCEPT !.title = ExamA.title]

\* a single event created without an end (data.get("end") is None), at noon
\* of the day before the exams
Memo == UserEvent(4, "memo", Combine(ExamDay - 1, Hours(12)), None, 5, FALSE)

\* another account's rows: an exam at the time of exam A and an unlocked
\* study block for it at the preferred hour of the day before
Other == "bob"

BobExam == [ExamA EXCEPT !.id = 7, !.user_id = Other, !.title = "bob's"]

BobBlock ==
    StudyBlock(8, BobExam, Combine(ExamDay - 1, Hours(18)), Combine(ExamDay - 1, Hours(20)))

\* one or two exams, with or without the busy and the all-day event; and
\* the calendars with the exam that is over, the saved block and the twin
Calendars ==
    {ex \cup bz \cup ad \cup {BobExam, BobBlock} :
        ex \in {{ExamA}, {ExamA, ExamB}},
        bz \in {{}, {Busy}},
        ad \in {{}, {AllDayOpen}, {AllDayFull}}}
    \cup {ex \cup {BobExam, BobBlock} :
            ex \in {{ExamA, OldExam}, {ExamA, ExamB, DoneBlock}, {ExamA, ExamTwin},
                    {ExamA, Memo}, {ExamA, Busy, Memo}}}

PrioritySetting(total, maxPerDay, days) ==
    [total_hours_to_learn |-> total, max_hours_per_day |-> maxPerDay,
     days_to_learn |-> days]

\* no PrioritySetting rows; short windows; the defaults of DEFAULT_SETTINGS
ShortWindows ==
    <<PrioritySetting(Hours(3), Hours(2), 1), PrioritySetting(Hours(3), 90, 2)>>

PriorityConfigs == {<<>>, ShortWindows}

PreferredTimes == {Hours(18), Hours(21) + 30}

\* populate_test_algorithm: the priority-1 exam ten days out, 09:00 to 11:00
TEN_DAYS == 10

MathExam ==
    UserEvent(1, "Math Exam", Combine(TEN_DAYS, Hours(9)), Combine(TEN_DAYS, Hours(11)),
              1, FALSE)

\* the settings a new account gets
DEFAULT_SETTINGS ==
    [learn_on_saturday |-> FALSE, learn_on_sunday |-> FALSE,
     preferred_learning_time |-> Hours(18),
     priority_settings |->
        <<PrioritySetting(Hours(14), Hours(2), 14), PrioritySetting(Hours(7), 90, 7),
          PrioritySetting(Hours(4), Hours(1), 4)>>]

\* an exam one day further out than the extension loop looks back, and
\* settings whose priority-1 window reaches that far: an hour on each day
FarDay == EXT_LIMIT + 1

FarExam ==
    UserEvent(1, "far", Combine(FarDay, Hours(9)), Combine(FarDay, Hours(11)), 1, FALSE)

LongWindow ==
    [learn_on_saturday |-> TRUE, learn_on_sunday |-> TRUE,
     preferred_learning_time |-> Hours(18),
     priority_settings |-> <<PrioritySetting(Hours(FarDay), Hours(1), FarDay)>>]

\* settings with a preferred time late in the evening, after DAY_END
NightOwl ==
    [learn_on_saturday |-> TRUE, learn_on_sunday |-> TRUE,
     preferred_learning_time |-> Hours(23), priority_settings |-> ShortWindows]

\* settings whose daily allowance, taken from the preferred time, runs past
\* midnight: three hours from 21:30
LateCrammer ==
    [learn_on_saturday |-> TRUE, learn_on_sunday |-> TRUE,
     preferred_learning_time |-> Hours(21) + 30,
     priority_settings |-> <<PrioritySetting(Hours(3), Hours(3), 1),
                             PrioritySetting(Hours(3), 90, 2)>>]

\* settings that leave half an hour after one full day: two and a half
\* hours in all, two a day
OddHours ==
    [learn_on_saturday |-> TRUE, learn_on_sunday |-> TRUE,
     preferred_learning_time |-> Hours(18),
     priority_settings |-> <<PrioritySetting(Hours(2) + 30, Hours(2), 3)>>]

SettingsRows ==
    [learn_on_saturday : BOOLEAN, learn_on_sunday : BOOLEAN,
     preferred_learning_time : PreferredTimes,
     priority_settings : PriorityConfigs]
    \cup {NightOwl, LateCrammer}

----------------------------------------------------------------------------
(* learning_time_algorithm(events, user): the pure parts *)

\* variant: rows that are missing are made up from the defaults
priority_settings_or_default ==
    IF settings.priority_settings = <<>>
    THEN DEFAULT_SETTINGS.priority_settings
    ELSE settings.priority_settings

\* priority_settings = {p.priority_level: p for p in settings.priority_settings}
priority_settings == settings.priority_settings

max_exam_priority == MaxOf(DOMAIN priority_settings)

IsExam(e) == e.priority > 0 /\ e.priority <= max_exam_priority

\* sorted(..., key=(priority, start)): stable, ties in list (id) order
RECURSIVE SortExams(_)
SortExams(S) ==
    IF S = {} THEN <<>>
    ELSE LET first == CHOOSE x \in S : \A y \in S :
                 \/ x.priority < y.priority
                 \/ x.priority = y.priority /\ x.start < y.start
                 \/ x.priority = y.priority /\ x.start = y.start /\ x.id <= y.id
         IN  <<first>> \o SortExams(S \ {first})

exams(events) == SortExams({e \in events : IsExam(e)})

window_end(exam) == exam.start

window_start(exam) ==
    exam.start - priority_settings[exam.priority].days_to_learn * MinutesPerDay

exam_blocks(events, exam) == {e \in events : e.exam_id = exam.id}

past_blocks(events, exam) == {b \in exam_blocks(events, exam) : b.start < now}

future_blocks(events, exam) ==
    {b \in exam_blocks(events, exam) :
        /\ b.start >= now
        /\ window_start(exam) <= b.start
        /\ b.start < window_end(exam)}

locked_future_blocks(events, exam) == {b \in future_blocks(events, exam) : b.locked}

\* variant: the locked flag is not looked at
recyclable_blocks_any(events, exam) == future_blocks(events, exam)

recyclable_blocks(events, exam) == {b \in future_blocks(events, exam) : ~b.locked}

hours_done(events, exam) == SumDuration(past_blocks(events, exam))

hours_scheduled_locked(events, exam) == SumDuration(locked_future_blocks(events, exam))

hours_left(events, exam) ==
    Max2(0, priority_settings[exam.priority].total_hours_to_learn
             - hours_done(events, exam) - hours_scheduled_locked(events, exam))

days_left_until_exam(exam) == DateOf(window_end(exam)) - DateOf(now)

\* current_day = window_end - timedelta(days=day_offset), as a date
current_day(exam, day_offset) == DateOf(window_end(exam)) - day_offset

\* variant: Sunday is tested against the Saturday flag's day number
weekend_skipped_sat_only(day) ==
    \/ ~settings.learn_on_saturday /\ WeekdayOf(day) = 5
    \/ ~settings.learn_on_sunday /\ WeekdayOf(day) = 5

weekend_skipped(day) ==
    \/ ~settings.learn_on_saturday /\ WeekdayOf(day) = 5
    \/ ~settings.learn_on_sunday /\ WeekdayOf(day) = 6

scheduled_today_for_exam(events, exam, day) ==
    SumDuration({b \in events : b.exam_id = exam.id /\ DateOf(b.start) = day})

\* variant: what the exam already has on the day is not subtracted
today_max_fresh(events, exam, day, left, new_scheduled) ==
    Min2(priority_settings[exam.priority].max_hours_per_day, left - new_scheduled)

today_max(events, exam, day, left, new_scheduled) ==
    Min2(priority_settings[exam.priority].max_hours_per_day
             - scheduled_today_for_exam(events, exam, day),
         left - new_scheduled)

preferred_start(day) == Combine(day, settings.preferred_learning_time)

preferred_end(day, tmax) ==
    IF TimeOf(preferred_start(day) + tmax) > DAY_END
    THEN Combine(day, DAY_END)
    ELSE preferred_start(day) + tmax

slot_free(events, day, tmax) ==
    /\ preferred_end(day, tmax) - preferred_start(day) >= SESSION
    /\ \A event \in {e \in events : DateOf(e.start) = day} :
           \/ preferred_end(day, tmax) <= event.start - BUFFER
           \/ preferred_start(day) >= event.end + BUFFER

\* to_dt(event.end) raises TypeError in the preferred-slot check: the slot is
\* long enough, and the loop over the day's events, in list order, reaches an
\* event without an end before it breaks at a conflict
preferred_check_raises(events, day, tmax) ==
    /\ preferred_end(day, tmax) - preferred_start(day) >= SESSION
    /\ \E event \in {e \in events : DateOf(e.start) = day} :
           /\ event.end = None
           /\ \A before \in {e \in events : DateOf(e.start) = day /\ e.id < event.id} :
                  /\ before.end # None
                  /\ \/ preferred_end(day, tmax) <= before.start - BUFFER
                     \/ preferred_start(day) >= before.end + BUFFER

\* the general free slot search: the first slot, longest first, that can
\* hold a session; <<>> when there is none
RECURSIVE FirstFit(_, _, _)
FirstFit(slots, i, limit) ==
    IF i > Len(slots) THEN <<>>
    ELSE LET slot_duration == slots[i][2] - slots[i][1]
             allocatable == Min2(slot_duration, limit)
         IN  IF slot_duration < SESSION \/ allocatable < SESSION
             THEN FirstFit(slots, i + 1, limit)
             ELSE <<slots[i][1], slots[i][1] + allocatable>>

general_slot(events, day, tmax, left, new_scheduled) ==
    FirstFit(SortSlots(free_slots(events, day)), 1, Min2(left - new_scheduled, tmax))

\* the body both day loops share: where, if anywhere, the day gets a block
Placement(events, exam, day, left, new_scheduled) ==
    LET tmax == today_max(events, exam, day, left, new_scheduled)
    IN  IF tmax <= SESSION THEN [kind |-> "none"]
        ELSE IF preferred_check_raises(events, day, tmax)
        THEN [kind |-> "TypeError"]
        ELSE IF slot_free(events, day, tmax)
        THEN [kind |-> "preferred", start |-> preferred_start(day),
              end |-> preferred_end(day, tmax)]
        ELSE IF free_slots_raises(events, day)
        THEN [kind |-> "TypeError"]
        ELSE LET g == general_slot(events, day, tmax, left, new_scheduled)
             IN  IF g = <<>> THEN [kind |-> "none"]
                 ELSE [kind |-> "general", start |-> g[1], end |-> g[2]]

----------------------------------------------------------------------------
(* The state of one call of learning_time_algorithm *)

NoEvent == UserEvent(NoId, "", 0, 0, 0, FALSE)

NoSummary == [exams_processed |-> 0, blocks_added |-> 0, hours_added |-> 0]

IdleRun ==
    [pc |-> "idle", at |-> "idle", events |-> {}, queue |-> <<>>, exam |-> NoEvent,
     hours_left |-> 0, hours_scheduled_locked |-> 0, hours_done |-> 0,
     new_scheduled |-> 0, days_left |-> 0, day_offset |-> 0,
     summary |-> NoSummary, successes |-> {}, response |-> "none",
     db0 |-> {}, created |-> <<>>]

\* valid: a run has completed and nothing happened since; again: that run
\* followed another completed run at the same now, which left the blocks "before"
NoLast == [valid |-> FALSE, now |-> 0, blocks |-> {}, again |-> FALSE, before |-> {}]

Active(r) == run[r].pc \in {"exam", "main", "ext", "finish"}

Quiet == \A r \in Workers : ~Active(r)

\* the unlocked study blocks of a calendar, by exam, start and end
UnlockedBlocks(rows) ==
    {[exam_id |-> e.exam_id, start |-> e.start, end |-> e.end] :
        e \in {x \in rows : x.exam_id # NoId /\ ~x.locked}}

----------------------------------------------------------------------------
(* Accounts, sessions and grades: the monolith src/app.py and the package  *)
(* src/kkoala that wsgi.py serves                                          *)

\* requests a behaviour may hold
MaxRequests == 3

Apps == {"app.py", "kkoala"}

Usernames == {"alice", "bob"}

Clients == {"c1", "c2"}

\* a session without the key "username"
NoUser == ""

\* bcrypt.generate_password_hash(password)
generate_password_hash(password) == <<"bcrypt", password>>

\* bcrypt.check_password_hash(hash, password)
check_password_hash(hash, password) == hash[1] = "bcrypt" /\ hash[2] = password

\* the User rows the behaviours start with: one password per account
PasswordHash(username) == generate_password_hash(<<username, "secret">>)

\* the credentials a login form may carry
Credentials ==
    {[username |-> u, password |-> <<v, "secret">>] : u \in Usernames, v \in Usernames}

\* request paths, by segment
LoginPath == <<"login">>

LogoutPath == <<"logout">>

NotenPage == <<"noten">>

DeletePath == <<"settings", "delete_account">>

NotenApi == <<"api", "noten">>

\* request.path.startswith("/api/")
IsApi(path) == Len(path) >= 2 /\ path[1] = "api"

\* variant: the session is not looked at
has_username_always(session) == TRUE

\* "username" in session
has_username(session) == session # NoUser

\* login_required of src/app.py: what the decorator does with a request
login_required(session, path) ==
    IF ~has_username(session)
    THEN IF IsApi(path) THEN [status |-> 401, location |-> "", view |-> FALSE]
         ELSE [status |-> 302, location |-> "login", view |-> FALSE]
    ELSE [status |-> 200, location |-> "", view |-> TRUE]

\* login_required of src/kkoala/utils.py: the account must exist as well
login_required_kkoala(session, path, users) ==
    IF ~has_username(session) \/ session \notin users
    THEN IF IsApi(path) THEN [status |-> 401, location |-> "", view |-> FALSE]
         ELSE [status |-> 302, location |-> "login", view |-> FALSE]
    ELSE [status |-> 200, location |-> "", view |-> TRUE]

\* the decorator of the application that is deployed
Guard(c, path) ==
    IF web.app = "app.py" THEN login_required(web.session[c], path)
    ELSE login_required_kkoala(web.session[c], path, web.users)

\* dict.get(key, default)
Get(dict, key, default) == IF key \in DOMAIN dict THEN dict[key] ELSE default

\* request bodies of POST /api/noten: a list of semesters, a list whose
\* second entry is a string, and an object that is no list
\* the key under which each application reads and writes a subject's flag
FlagKey == IF web.app = "app.py" THEN "counts_towards_average" ELSE "counts_average"

SubjectObject(name, flag, grades) ==
    IF FlagKey = "counts_towards_average"
    THEN [name |-> name, counts_towards_average |-> flag, grades |-> grades]
    ELSE [name |-> name, counts_average |-> flag, grades |-> grades]

HistorySubject == SubjectObject("History", FALSE, <<>>)

MathSubject ==
    SubjectObject("Math", TRUE, <<[name |-> "test", value |-> 5, weight |-> 1, counts |-> TRUE]>>)

SemesterObject(name, subjects) == [json |-> "object", name |-> name, subjects |-> subjects]

JsonString == [json |-> "string", name |-> "", subjects |-> <<>>]

PayloadList ==
    << [json |-> "array", items |-> <<>>],
       [json |-> "array", items |-> <<SemesterObject("HS24", <<HistorySubject, MathSubject>>)>>],
       [json |-> "array", items |-> <<SemesterObject("FS25", <<MathSubject>>), JsonString>>],
       [json |-> "object", items |-> <<>>] >>

\* Grade(name=grade["name"], value=grade["value"], weight=..., counts=...)
GradeRow(grade) ==
    [name |-> grade.name, value |-> grade.value, weight |-> grade.weight,
     counts |-> grade.counts]

\* Subject(name=subj["name"], counts_towards_average=subj.get(key, True)) with its grades
SubjectRow(subj, key) ==
    [name |-> subj.name, counts_towards_average |-> Get(subj, key, TRUE),
     grades |-> [i \in 1..Len(subj.grades) |-> GradeRow(subj.grades[i])]]

\* Semester(user_id=user.id, name=sem["name"]) with its subjects
SemesterRow(sem, key) ==
    [name |-> sem.name,
     subjects |-> [i \in 1..Len(sem.subjects) |-> SubjectRow(sem.subjects[i], key)]]

\* the re-creation loop: it raises at the first entry that is no object
Recreate(data, key) ==
    IF data.json # "array" \/ \E i \in 1..Len(data.items) : data.items[i].json # "object"
    THEN [raised |-> TRUE, rows |-> <<>>]
    ELSE [raised |-> FALSE,
          rows |-> [i \in 1..Len(data.items) |-> SemesterRow(data.items[i], key)]]

\* where the database may fail in a save
Failures == {"none", "delete", "insert"}

\* save_noten of src/app.py: delete, commit, re-create, commit
save_noten(username, data, failure) ==
    LET made == Recreate(data, "counts_towards_average")
        emptied == [web.noten EXCEPT ![username] = <<>>]
    IN  IF username \notin web.users THEN [status |-> 404, noten |-> web.noten]
        ELSE IF failure = "delete" THEN [status |-> 500, noten |-> web.noten]
        ELSE IF made.raised \/ failure = "insert" THEN [status |-> 500, noten |-> emptied]
        ELSE [status |-> 200, noten |-> [web.noten EXCEPT ![username] = made.rows]]

\* save_noten of src/kkoala/routes/grades.py: validate, then one transaction
save_noten_kkoala(username, data, failure) ==
    LET made == Recreate(data, "counts_average")
    IN  IF made.raised THEN [status |-> 400, noten |-> web.noten]
        ELSE IF failure # "none" THEN [status |-> 500, noten |-> web.noten]
        ELSE [status |-> 201, noten |-> [web.noten EXCEPT ![username] = made.rows]]

\* the latest response, with what the request met
Response(c, path, status, location, ran, k) ==
    [client |-> c, path |-> path, status |-> status, location |-> location,
     ran |-> ran, user |-> web.session[c], before |-> web.noten, payload |-> k]

NoResponse ==
    [client |-> "", path |-> <<>>, status |-> 0, location |-> "", ran |-> FALSE,
     user |-> NoUser, before |-> <<>>, payload |-> 0]

\* nobody is logged in; alice has stored a semester
WebStart(app) ==
    [app |-> app, users |-> Usernames, session |-> [c \in Clients |-> NoUser],
     noten |-> [u \in Usernames |->
                   IF u = "alice"
                   THEN <<[name |-> "HS23",
                           subjects |-> <<[name |-> "Math", counts_towards_average |-> TRUE,
                                           grades |-> <<>>]>>]>>
                   ELSE <<>>],
     response |-> NoResponse, nReq |-> 0]

\* free_slots has not been called on its own
NoProbe == [called |-> FALSE, day |-> 0, slots |-> <<>>]

Init ==
    \* day 0 is a Friday, so that a weekend lies before the exams, which the
    \* settings may open for learning; in the ten-day scenario it is any weekday
    /\ \/ db \in Calendars /\ settings \in SettingsRows /\ dow0 = 4
       \/ db = {MathExam} /\ settings = DEFAULT_SETTINGS /\ dow0 \in 0..6
       \/ db = {FarExam} /\ settings = LongWindow /\ dow0 = 0
       \/ db = {ExamA} /\ settings = OddHours /\ dow0 = 4
    /\ now = Combine(0, Hours(19))
    /\ run = [r \in Workers |-> IdleRun]
    /\ last = NoLast
    /\ nRuns = 0
    /\ nOps = 0
    /\ web = WebStart("app.py")
    /\ probe = NoProbe

----------------------------------------------------------------------------
(* run_learning_algorithm and learning_time_algorithm, commit by commit *)

SetRun(r, rec) == run' = [run EXCEPT ![r] = rec]

\* variant: the rows of every account are loaded
EventsOfAnyUser(rows) == rows

\* Event.query.filter_by(user_id=user.id).all()
EventsOfUser(rows) == {e \in rows : e.user_id = User}

\* the request arrives: the user's events are loaded and the settings read
StartRun(r) ==
    /\ ~Active(r)
    /\ nRuns < MaxRuns
    /\ nRuns' = nRuns + 1
    /\ LET events == EventsOfUser(db)
           fresh == [IdleRun EXCEPT !.events = events, !.db0 = db]
       IN  IF DOMAIN priority_settings = {}
           THEN SetRun(r, [fresh EXCEPT !.pc = "done", !.response = "error"])
           ELSE SetRun(r, [fresh EXCEPT !.pc = "exam", !.queue = exams(events)])
    /\ last' = IF DOMAIN priority_settings = {} THEN NoLast ELSE last
    /\ UNCHANGED <<web, probe, db, now, dow0, settings, nOps>>

\* the head of the exam loop: budget, recycling (with its commit), hours left
BeginExam(r) ==
    /\ run[r].pc = "exam"
    /\ run[r].queue # <<>>
    /\ LET me == run[r]
           exam == Head(me.queue)
           recycled == recyclable_blocks(me.events, exam)
           left == hours_left(me.events, exam)
           counted == [me.summary EXCEPT !.exams_processed = @ + 1]
       IN  IF exam.priority \notin DOMAIN priority_settings
           THEN /\ SetRun(r, [me EXCEPT !.queue = Tail(me.queue)])
                /\ db' = db
           ELSE /\ db' = {e \in db : e.id \notin {b.id : b \in recycled}}
                /\ SetRun(r, [me EXCEPT
                       !.exam = exam,
                       !.events = me.events \ recycled,
                       !.summary = counted,
                       !.hours_done = hours_done(me.events, exam),
                       !.hours_scheduled_locked = hours_scheduled_locked(me.events, exam),
                       !.hours_left = left,
                       !.new_scheduled = 0,
                       !.days_left = days_left_until_exam(exam),
                       !.day_offset = 1,
                       !.queue = IF left = 0 THEN Tail(me.queue) ELSE me.queue,
                       !.pc = IF left = 0 THEN "exam" ELSE "main"])
    /\ UNCHANGED <<web, probe, now, dow0, settings, last, nRuns, nOps>>

\* the unlocked blocks of less urgent exams that this run has yet to recycle
Stale(me) ==
    {e \in me.events : \E i \in 2..Len(me.queue) :
        /\ me.queue[i].priority \in DOMAIN priority_settings
        /\ me.queue[i].priority > me.exam.priority
        /\ e \in recyclable_blocks(me.events, me.queue[i])}

\* db.session.add(new_block); db.session.commit(); events.append(new_block)
Commit(r, me, place, loop, nextPc) ==
    LET block == StudyBlock(NewId(db), me.exam, place.start, place.end)
        day == DateOf(place.start)
        alone == Placement(me.events \ Stale(me), me.exam, day, me.hours_left,
                           me.new_scheduled)
    IN  /\ db' = db \cup {block}
        /\ SetRun(r, [me EXCEPT
               !.events = @ \cup {block},
               !.new_scheduled = @ + Duration(block),
               !.summary = [@ EXCEPT !.blocks_added = @ + 1,
                                     !.hours_added = @ + Duration(block)],
               !.created = Append(@, [block |-> block, kind |-> place.kind,
                                      loop |-> loop, first_pick |-> alone = place]),
               !.day_offset = @ + 1,
               !.pc = nextPc])

\* an exception leaves learning_time_algorithm: the request ends without a
\* summary, and what was committed stays
Raised(me) == [me EXCEPT !.pc = "raised", !.at = me.pc, !.response = "TypeError"]

\* one pass of "for day_offset in range(1, days_left_until_exam + 1)"
MainDay(r) ==
    /\ run[r].pc = "main"
    /\ LET me == run[r]
           day == current_day(me.exam, me.day_offset)
           skip == [me EXCEPT !.day_offset = @ + 1]
           leave == [me EXCEPT !.pc = IF me.new_scheduled < me.hours_left
                                      THEN "ext" ELSE "finish",
                               !.day_offset =
                                   priority_settings[me.exam.priority].days_to_learn + 1]
           place == Placement(me.events, me.exam, day, me.hours_left, me.new_scheduled)
       IN  IF me.day_offset > me.days_left
           THEN SetRun(r, leave) /\ db' = db
           ELSE IF day < DateOf(window_start(me.exam)) \/ weekend_skipped(day)
           THEN SetRun(r, skip) /\ db' = db
           ELSE IF me.new_scheduled >= me.hours_left
           THEN SetRun(r, leave) /\ db' = db
           ELSE IF place.kind = "none"
           THEN SetRun(r, skip) /\ db' = db
           ELSE IF place.kind = "TypeError"
           THEN SetRun(r, Raised(me)) /\ db' = db
           ELSE Commit(r, me, place, "main", "main")
    /\ last' = IF run'[r].pc = "raised" THEN NoLast ELSE last
    /\ UNCHANGED <<web, probe, now, dow0, settings, nRuns, nOps>>

\* one pass of "for day_offset in range(window_days + 1, min(22, days_left + 1))"
ExtDay(r) ==
    /\ run[r].pc = "ext"
    /\ LET me == run[r]
           day == current_day(me.exam, me.day_offset)
           skip == [me EXCEPT !.day_offset = @ + 1]
           leave == [me EXCEPT !.pc = "finish"]
           place == Placement(me.events, me.exam, day, me.hours_left, me.new_scheduled)
       IN  IF me.day_offset >= Min2(EXT_LIMIT, me.days_left + 1)
           THEN SetRun(r, leave) /\ db' = db
           ELSE IF me.new_scheduled >= me.hours_left
           THEN SetRun(r, leave) /\ db' = db
           ELSE IF place.kind = "none"
           THEN SetRun(r, skip) /\ db' = db
           ELSE IF place.kind = "TypeError"
           THEN SetRun(r, Raised(me)) /\ db' = db
           ELSE Commit(r, me, place, "ext", "ext")
    /\ last' = IF run'[r].pc = "raised" THEN NoLast ELSE last
    /\ UNCHANGED <<web, probe, now, dow0, settings, nRuns, nOps>>

\* the final status update of the exam
Outcome(me) ==
    LET total_scheduled == me.new_scheduled + me.hours_scheduled_locked
        total_required ==
            Max2(0, priority_settings[me.exam.priority].total_hours_to_learn
                     - me.hours_done)
    IN  [title |-> me.exam.title, ok |-> total_scheduled >= total_required,
         scheduled |-> total_scheduled, required |-> total_required]

FinishExam(r) ==
    /\ run[r].pc = "finish"
    /\ LET me == run[r]
       IN  SetRun(r, [me EXCEPT
               !.successes = {s \in @ : s.title # me.exam.title} \cup {Outcome(me)},
               !.queue = Tail(me.queue),
               !.pc = "exam"])
    /\ UNCHANGED <<web, probe, db, now, dow0, settings, last, nRuns, nOps>>

\* return summary, successes
Return(r) ==
    /\ run[r].pc = "exam"
    /\ run[r].queue = <<>>
    /\ SetRun(r, [run[r] EXCEPT !.pc = "done", !.response = "summary"])
    /\ last' = [valid |-> TRUE, now |-> now, blocks |-> UnlockedBlocks(db),
                again |-> last.valid /\ last.now = now, before |-> last.blocks]
    /\ UNCHANGED <<web, probe, db, now, dow0, settings, nRuns, nOps>>

\* the worker dies between two commits
Crash(r) ==
    /\ Active(r)
    /\ nOps < MaxOps
    /\ nOps' = nOps + 1
    /\ SetRun(r, [run[r] EXCEPT !.pc = "crashed", !.at = run[r].pc])
    /\ last' = NoLast
    /\ UNCHANGED <<web, probe, db, now, dow0, settings, nRuns>>

----------------------------------------------------------------------------
(* What happens between runs *)

\* a day passes
AdvanceTime ==
    /\ Quiet
    /\ nRuns > 0
    /\ nOps < MaxOps
    /\ nOps' = nOps + 1
    /\ now' = now + MinutesPerDay
    /\ last' = NoLast
    /\ run' = [r \in Workers |-> IdleRun]
    /\ UNCHANGED <<web, probe, db, dow0, settings, nRuns>>

\* the request bodies of update_event: the event's form, saved as it was shown
UpdateForms(event) ==
    {[title |-> event.title, start |-> event.start, end |-> event.end,
      priority |-> event.priority, all_day |-> event.all_day]}

\* update_event, case 1: the user saves a single event, one of those that
\* get_events showed; it becomes locked
UpdateEvent ==
    /\ Quiet
    /\ nRuns > 0
    /\ nOps < MaxOps
    /\ nOps' = nOps + 1
    /\ \E event \in EventsOfUser(db) : \E data \in UpdateForms(event) :
           db' = (db \ {event}) \cup
                   {[event EXCEPT !.title = data.title, !.start = data.start,
                                  !.end = data.end, !.priority = data.priority,
                                  !.all_day = data.all_day, !.locked = TRUE]}
    /\ last' = NoLast
    /\ run' = [r \in Workers |-> IdleRun]
    /\ UNCHANGED <<web, probe, now, dow0, settings, nRuns>>

Next ==
    \/ StartRun("w1")
    \/ BeginExam("w1")
    \/ MainDay("w1")
    \/ ExtDay("w1")
    \/ FinishExam("w1")
    \/ Return("w1")
    \/ Crash("w1")
    \/ AdvanceTime
    \/ UpdateEvent

Spec == Init /\ [][Next]_vars

----------------------------------------------------------------------------
(* Requests to the accounts, pages and grades (CSRF tokens are taken as    *)
(* valid, as under TESTING)                                                *)

Answer(c, path, status, location, ran, k) ==
    [web EXCEPT !.response = Response(c, path, status, location, ran, k),
                !.nReq = @ + 1]

\* POST /login
Login(c, form) ==
    /\ web.nReq < MaxRequests
    /\ IF /\ form.username \in web.users
          /\ check_password_hash(PasswordHash(form.username), form.password)
       THEN web' = [Answer(c, LoginPath, 302, "home", TRUE, 0)
                        EXCEPT !.session[c] = form.username]
       ELSE web' = Answer(c, LoginPath, 200, "", TRUE, 0)
    /\ UNCHANGED <<db, now, dow0, settings, run, last, nRuns, nOps, probe>>

\* GET /noten, a login-protected page
NotenView(c) ==
    /\ web.nReq < MaxRequests
    /\ LET g == Guard(c, NotenPage)
       IN  web' = Answer(c, NotenPage, g.status, g.location, g.view, 0)
    /\ UNCHANGED <<db, now, dow0, settings, run, last, nRuns, nOps, probe>>

\* GET /logout: session.pop("username", None)
Logout(c) ==
    /\ web.nReq < MaxRequests
    /\ LET g == Guard(c, LogoutPath)
       IN  IF g.view
           THEN web' = [Answer(c, LogoutPath, 302, "home", TRUE, 0)
                            EXCEPT !.session[c] = NoUser]
           ELSE web' = Answer(c, LogoutPath, g.status, g.location, FALSE, 0)
    /\ UNCHANGED <<db, now, dow0, settings, run, last, nRuns, nOps, probe>>

\* delete_account: the User row goes, its semesters with it, then session.clear();
\* in src/app.py a session whose account is gone makes db.session.delete(None) raise
DeleteAccount(c) ==
    /\ web.nReq < MaxRequests
    /\ LET g == Guard(c, DeletePath)
           username == web.session[c]
       IN  IF ~g.view
           THEN web' = Answer(c, DeletePath, g.status, g.location, FALSE, 0)
           ELSE IF username \notin web.users
           THEN web' = Answer(c, DeletePath, 500, "", TRUE, 0)
           ELSE web' = [Answer(c, DeletePath, 302, "home", TRUE, 0)
                            EXCEPT !.users = @ \ {username},
                                   !.noten[username] = <<>>,
                                   !.session[c] = NoUser]
    /\ UNCHANGED <<db, now, dow0, settings, run, last, nRuns, nOps, probe>>

\* POST /api/noten
SaveNoten(c, k, failure) ==
    /\ web.nReq < MaxRequests
    /\ LET g == Guard(c, NotenApi)
           saved == IF web.app = "app.py"
                    THEN save_noten(web.session[c], PayloadList[k], failure)
                    ELSE save_noten_kkoala(web.session[c], PayloadList[k], failure)
       IN  IF ~g.view
           THEN web' = Answer(c, NotenApi, g.status, g.location, FALSE, k)
           ELSE web' = [Answer(c, NotenApi, saved.status, "", TRUE, k)
                            EXCEPT !.noten = saved.noten]
    /\ UNCHANGED <<db, now, dow0, settings, run, last, nRuns, nOps, probe>>

WebInit ==
    /\ db = {}
    /\ settings = DEFAULT_SETTINGS
    /\ dow0 = 0
    /\ now = Combine(0, Hours(19))
    /\ run = [r \in Workers |-> IdleRun]
    /\ last = NoLast
    /\ nRuns = 0
    /\ nOps = 0
    /\ \E app \in Apps : web = WebStart(app)
    /\ probe = NoProbe

WebNext ==
    \/ \E c \in Clients : \E form \in Credentials : Login(c, form)
    \/ \E c \in Clients : NotenView(c)
    \/ \E c \in Clients : Logout(c)
    \/ \E c \in Clients : DeleteAccount(c)
    \/ \E c \in Clients : \E k \in DOMAIN PayloadList : \E failure \in Failures :
           SaveNoten(c, k, failure)

WebSpec == WebInit /\ [][WebNext]_vars

----------------------------------------------------------------------------
(* free_slots(events, day) on its own, over the calendars of one day *)

ProbeDay == 1

DayEvent(id, title, s, e) == UserEvent(id, title, s, e, 5, FALSE)

\* events around ProbeDay: before 08:00, half an hour after 08:00, two that
\* overlap at noon, one that ends half an hour before 22:00, one after 22:00,
\* and one that begins the evening before and lasts into the morning
EventPool ==
    {DayEvent(1, "early", Combine(ProbeDay, Hours(7)), Combine(ProbeDay, Hours(7) + 20)),
     DayEvent(2, "morning", Combine(ProbeDay, Hours(8) + 30), Combine(ProbeDay, Hours(9) + 30)),
     DayEvent(3, "lunch", Combine(ProbeDay, Hours(12)), Combine(ProbeDay, Hours(13))),
     DayEvent(4, "meeting", Combine(ProbeDay, Hours(12) + 30), Combine(ProbeDay, Hours(14))),
     DayEvent(5, "evening", Combine(ProbeDay, Hours(20)), Combine(ProbeDay, Hours(21) + 30)),
     DayEvent(6, "night", Combine(ProbeDay, Hours(23)), Combine(ProbeDay, Hours(23) + 30)),
     DayEvent(7, "overnight", Combine(ProbeDay - 1, Hours(23)), Combine(ProbeDay, Hours(9)))}

SlotsInit ==
    /\ db \in SUBSET EventPool
    /\ settings = DEFAULT_SETTINGS
    /\ dow0 = 0
    /\ now = Combine(0, Hours(19))
    /\ run = [r \in Workers |-> IdleRun]
    /\ last = NoLast
    /\ nRuns = 0
    /\ nOps = 0
    /\ web = WebStart("app.py")
    /\ probe = NoProbe

\* slots = free_slots(events, current_day.date())
FreeSlotsCall(day) ==
    /\ ~probe.called
    /\ probe' = [called |-> TRUE, day |-> day,
                 slots |-> free_slots(EventsOfUser(db), day)]
    /\ UNCHANGED <<db, now, dow0, settings, run, last, nRuns, nOps, web>>

SlotsNext == \E day \in {ProbeDay - 1, ProbeDay} : FreeSlotsCall(day)

SlotsSpec == SlotsInit /\ [][SlotsNext]_vars

----------------------------------------------------------------------------
(* Two requests of the same user at once: each worker has its own session  *)
(* and its own list of events; the commits interleave                      *)

Evenings ==
    [learn_on_saturday |-> TRUE, learn_on_sunday |-> TRUE,
     preferred_learning_time |-> Hours(18), priority_settings |-> ShortWindows]

ConcurrentInit ==
    /\ db \in {{ExamA}, {ExamA, Busy}, {ExamA, ExamB}}
    /\ settings = Evenings
    /\ dow0 = 4
    /\ now = Combine(0, Hours(19))
    /\ run = [r \in Workers |-> IdleRun]
    /\ last = NoLast
    /\ nRuns = 0
    /\ nOps = 0
    /\ web = WebStart("app.py")
    /\ probe = NoProbe

ConcurrentNext ==
    \E r \in Workers :
        \/ StartRun(r)
        \/ BeginExam(r)
        \/ MainDay(r)
        \/ ExtDay(r)
        \/ FinishExam(r)
        \/ Return(r)

ConcurrentSpec == ConcurrentInit /\ [][ConcurrentNext]_vars

----------------------------------------------------------------------------
(* Properties *)

Started(r) == run[r].pc # "idle"

Finished(r) == run[r].pc = "done" /\ run[r].response = "summary"

Created(r) == {run[r].created[i] : i \in 1..Len(run[r].created)}

CreatedBlocks(r) == {c.block : c \in Created(r)}

\* the events a run loaded when it began
Loaded(r) == EventsOfUser(run[r].db0)

\* the exam a study block belongs to, as the run loaded it
ExamOf(r, b) == CHOOSE e \in run[r].db0 : e.id = b.exam_id

\* b keeps the 30-minute buffer to e
Apart(b, e) == b.end <= e.start - BUFFER \/ b.start >= e.end + BUFFER

\* C1: a run that directly follows a completed run, at the same now, leaves
\* the unlocked study blocks exactly as that run left them.
C1_Idempotent == (last.valid /\ last.again) => last.blocks = last.before

\* C2: blocks are created exam by exam in ascending (priority, start) order,
\* and each block of a more urgent exam is placed where it would be placed
\* if the recyclable blocks of the less urgent exams were not in the
\* calendar, so that a less urgent exam only ever gets what is left over.
C2_PriorityOrdering ==
    \A r \in Workers :
        /\ \A i, j \in 1..Len(run[r].created) :
               i < j =>
                   LET x == ExamOf(r, run[r].created[i].block)
                       y == ExamOf(r, run[r].created[j].block)
                   IN  \/ x.priority < y.priority
                       \/ x.priority = y.priority /\ x.start <= y.start
        /\ \A c \in Created(r) : c.first_pick

\* C3: while a run works and when it has ended, every event that was locked
\* or started before now when the run began is still stored, unchanged.
C3_LockedAndPastSurvive ==
    \A r \in Workers :
        Started(r) =>
            \A e \in run[r].db0 : (e.locked \/ e.start < now) => e \in db

C3_Witness ==
    \E r \in Workers :
        /\ Finished(r)
        /\ \E e \in run[r].db0 :
               /\ e.locked /\ e.exam_id # NoId /\ e \in db
               /\ \E d \in run[r].db0 \ db : d.exam_id = e.exam_id
               /\ \E b \in CreatedBlocks(r) : b.exam_id = e.exam_id

C5_WeekendExclusion ==
    \A r \in Workers :
        \A b \in CreatedBlocks(r) :
            /\ ~settings.learn_on_saturday => WeekdayOf(DateOf(b.start)) # 5
            /\ ~settings.learn_on_sunday => WeekdayOf(DateOf(b.start)) # 6

\* C6: on every day on which a run created a block for an exam, all the
\* study blocks of that exam that start that day last, together, at most
\* the max_hours_per_day of the exam's priority.
C6_CapRespected ==
    \A r \in Workers :
        \A b \in CreatedBlocks(r) :
            SumDuration({e \in db : /\ e.exam_id = b.exam_id
                                    /\ DateOf(e.start) = DateOf(b.start)})
                <= priority_settings[ExamOf(r, b).priority].max_hours_per_day

C6_Witness ==
    \E r \in Workers :
        /\ Finished(r)
        /\ \E b \in CreatedBlocks(r) :
               \E e \in run[r].db0 \cap db :
                   e.exam_id = b.exam_id /\ DateOf(e.start) = DateOf(b.start)

\* C7: when a run is interrupted, the store holds the calendar the run
\* started from, or the run had finished its last exam.
C7_AtomicReplacement ==
    \A r \in Workers :
        run[r].pc = "crashed" =>
            \/ db = run[r].db0
            \/ run[r].at = "exam" /\ run[r].queue = <<>>

\* C8: no block a run created starts on a day on which an all-day event
\* starts.
C8_AllDayBlocks ==
    \A r \in Workers :
        \A b \in CreatedBlocks(r) :
            ~\E e \in db : e.all_day /\ DateOf(e.start) = DateOf(b.start)

\* C9 as stated: the scenario of populate_test_algorithm's priority-1 exam
\* (14 hours, 2 hours a day, ten days out), nothing else in the calendar,
\* the default settings; the run takes place on a weekday.
Scenario(r) ==
    /\ Finished(r)
    /\ run[r].db0 = {MathExam}
    /\ settings = DEFAULT_SETTINGS
    /\ DateOf(MathExam.start) - DateOf(now) = TEN_DAYS

Today == WeekdayOf(DateOf(now))

\* n blocks of two hours at 18:00 on n distinct weekdays before the exam
TwoHourBlocks(r, n) ==
    /\ Len(run[r].created) = n
    /\ Cardinality({DateOf(b.start) : b \in CreatedBlocks(r)}) = n
    /\ CreatedBlocks(r) \subseteq db
    /\ \A b \in CreatedBlocks(r) :
           /\ b.exam_id = MathExam.id
           /\ TimeOf(b.start) = Hours(18)
           /\ b.end = b.start + Hours(2)
           /\ WeekdayOf(DateOf(b.start)) \in 0..4
           /\ DateOf(b.start) >= DateOf(now)
           /\ DateOf(b.start) < DateOf(MathExam.start)
    /\ run[r].summary = [exams_processed |-> 1, blocks_added |-> n,
                         hours_added |-> n * Hours(2)]

AllFourteenHours(r) ==
    /\ TwoHourBlocks(r, 7)
    /\ run[r].successes =
           {[title |-> "Math Exam", ok |-> TRUE, scheduled |-> Hours(14),
             required |-> Hours(14)]}

C9_EveryWeekday ==
    \A r \in Workers : (Scenario(r) /\ Today \in 0..4) => AllFourteenHours(r)

\* C9, amended: a run on a Monday, Tuesday, Wednesday or Thursday creates
\* the seven blocks and reports success; a run on a Friday finds only six
\* weekdays before the exam, creates six blocks (12 hours) and reports the
\* exam as not fully scheduled.
C9_MondayToThursday ==
    \A r \in Workers :
        Scenario(r) =>
            /\ Today \in 0..3 => AllFourteenHours(r)
            /\ Today = 4 =>
                   /\ TwoHourBlocks(r, 6)
                   /\ run[r].successes =
                          {[title |-> "Math Exam", ok |-> FALSE,
                            scheduled |-> Hours(12), required |-> Hours(14)]}

C9_Witness == \E r \in Workers : Scenario(r) /\ Today = 3 /\ AllFourteenHours(r)

\* C10: with no PrioritySetting rows a run ends at once with the error
\* result: it does not delete, create or change an event, and reports no
\* summary and no outcome.
C10_NoConfiguration ==
    \A r \in Workers :
        (Started(r) /\ settings.priority_settings = <<>>) =>
            /\ run[r].pc = "done"
            /\ run[r].response = "error"
            /\ db = run[r].db0
            /\ run[r].created = <<>>
            /\ run[r].summary = NoSummary
            /\ run[r].successes = {}

C10_Witness ==
    \E r \in Workers :
        /\ run[r].response = "error"
        /\ \E e \in db : e.priority = 1

\* C11: once a run has created its first block, its working set holds no
\* recyclable (unlocked, future) study block of any exam that was stored
\* when the run began: the deletions all come before the first creation.
C11_GlobalRecycle ==
    \A r \in Workers :
        run[r].created # <<>> =>
            \A exam \in {e \in Loaded(r) : IsExam(e)} :
                recyclable_blocks((run[r].events \ CreatedBlocks(r)) \cap run[r].db0,
                                  exam) = {}

\* the exams of the calendar a run started from whose start is after now
FutureExams(r) == {e \in Loaded(r) : IsExam(e) /\ e.start > now}

\* C12: a completed run has counted, reported on, deleted for and created
\* for only the exams that start strictly after now.
C12_ExamSelection ==
    \A r \in Workers :
        Finished(r) =>
            /\ run[r].summary.exams_processed = Cardinality(FutureExams(r))
            /\ \A s \in run[r].successes : \E e \in FutureExams(r) : e.title = s.title
            /\ \A b \in CreatedBlocks(r) \cup (run[r].db0 \ db) :
                   \E e \in FutureExams(r) : e.id = b.exam_id

\* max(0, total - hoursDone - hoursLockedFuture) over a calendar's rows
RemainingHours(rows, exam) ==
    LET mine == {b \in rows : b.exam_id = exam.id}
    IN  Max2(0, priority_settings[exam.priority].total_hours_to_learn
                 - SumDuration({b \in mine : b.start < now})
                 - SumDuration({b \in mine : b.locked /\ b.start >= now}))

\* C13: the hours a run sets out to schedule for an exam are the exam's
\* total hours less the hours of its blocks that started before now and
\* less the hours of all its locked blocks that start at or after now.
C13_RemainingHours ==
    \A r \in Workers :
        run[r].pc \in {"main", "ext", "finish"} =>
            run[r].hours_left = RemainingHours(Loaded(r), run[r].exam)

\* the exams of the calendar a run started from that have no hours left
SatisfiedExams(r) ==
    {e \in Loaded(r) : IsExam(e) /\ hours_left(Loaded(r), e) = 0}

\* C14: after a completed run an exam that had no hours left when the run
\* came to it has no new block, is counted in exams_processed and has an
\* outcome entry that says success.
C14_ZeroRemaining ==
    \A r \in Workers :
        Finished(r) =>
            \A e \in SatisfiedExams(r) :
                /\ \A b \in CreatedBlocks(r) : b.exam_id # e.id
                /\ run[r].summary.exams_processed =
                       Cardinality({x \in Loaded(r) : IsExam(x)})
                /\ \E s \in run[r].successes : s.title = e.title /\ s.ok

\* C15: every block a run created lies on a day before the day of its
\* exam, and at most 21 days before it.
C15_LookbackBound ==
    \A r \in Workers :
        \A b \in CreatedBlocks(r) :
            LET examDate == DateOf(ExamOf(r, b).start)
            IN  /\ DateOf(b.start) < examDate
                /\ examDate - DateOf(b.start) <= EXT_LIMIT - 1

\* the exams of the calendar a run started from that have hours left
OpenExams(r) ==
    {e \in Loaded(r) : IsExam(e) /\ hours_left(Loaded(r), e) > 0}

\* the hours a run has scheduled for an exam
ScheduledFor(r, e) == SumDuration({b \in CreatedBlocks(r) : b.exam_id = e.id})

\* C16: after a completed run there is one outcome entry for each exam that
\* had hours left, under the exam's title, and it says success exactly
\* when the hours the run scheduled for the exam reach the hours left.
C16_OutcomePerExam ==
    \A r \in Workers :
        Finished(r) =>
            /\ Cardinality(run[r].successes) = Cardinality(OpenExams(r))
            /\ \A e \in OpenExams(r) :
                   \E s \in run[r].successes :
                       /\ s.title = e.title
                       /\ s.ok <=> ScheduledFor(r, e) >= hours_left(Loaded(r), e)

\* C17: while a run works and when it has ended, every event of another
\* account that was stored when the run began is stored unchanged, and
\* every block the run created belongs to the account the run is for.
C17_OtherUsersUntouched ==
    \A r \in Workers :
        Started(r) =>
            /\ \A e \in run[r].db0 : e.user_id # User => e \in db
            /\ \A e \in db \ run[r].db0 : e.user_id = User
            /\ \A b \in CreatedBlocks(r) : b.user_id = User

C17_Witness ==
    \E r \in Workers :
        /\ Finished(r)
        /\ run[r].db0 \ db # {}
        /\ \E b \in CreatedBlocks(r) :
               \E e \in db : e.user_id = Other /\ ~e.locked /\ e.start = b.start

\* C20: no block that a run placed at the preferred time ends after 22:00
\* of the day on which it starts.
C20_PreferredWithinDay ==
    \A r \in Workers :
        \A c \in Created(r) :
            c.kind = "preferred" =>
                c.block.end <= Combine(DateOf(c.block.start), DAY_END)

\* C18: a login-protected view runs only for a session that holds a
\* username; without one a page request is redirected to the login page and
\* an /api/ request is answered 401, the view not running.  Right after a
\* successful login the protected page is open to that session, and right
\* after a logout it is closed to it.
C18_LoginRequired ==
    LET p == web.response
    IN  /\ (p.path \notin {<<>>, LoginPath} /\ p.ran) => p.user # NoUser
        /\ (p.path \notin {<<>>, LoginPath} /\ p.user = NoUser) =>
               /\ ~p.ran
               /\ IsApi(p.path) => p.status = 401
               /\ ~IsApi(p.path) => p.status = 302 /\ p.location = "login"
        /\ (p.path = LoginPath /\ p.status = 302) => Guard(p.client, NotenPage).view
        /\ (p.path = LogoutPath /\ p.ran) => ~Guard(p.client, NotenPage).view

C18_Witness ==
    /\ web.response.path = LogoutPath
    /\ web.response.ran
    /\ web.session[web.response.client] = NoUser
    /\ \E c \in Clients : web.session[c] # NoUser

\* the rows a payload describes
Described(data) ==
    [i \in 1..Len(data.items) |->
        [name |-> data.items[i].name,
         subjects |-> [j \in 1..Len(data.items[i].subjects) |->
                          LET subj == data.items[i].subjects[j]
                          IN  [name |-> subj.name,
                               counts_towards_average |-> subj[FlagKey],
                               grades |-> subj.grades]]]]

\* C19: after a save that reports success the user's stored semesters,
\* subjects and grades are those of the payload; after a save that reports
\* an error every stored record is as it was before the request.
C19_SaveReplaces ==
    LET p == web.response
    IN  p.path = NotenApi =>
            /\ p.status \in {200, 201} =>
                   web.noten[p.user] = Described(PayloadList[p.payload])
            /\ p.status >= 400 => web.noten = p.before

----------------------------------------------------------------------------
(* Placement on one day *)

\* the day a run evaluates next
DayOf(r) == current_day(run[r].exam, run[r].day_offset)

\* todayMax of that day
TodayMax(r) ==
    today_max(run[r].events, run[r].exam, DayOf(r), run[r].hours_left,
              run[r].new_scheduled)

\* the run's next step evaluates an eligible day: a day of the loop, not in
\* the past, without an all-day event, not an excluded weekend day, with hours
\* still to schedule and todayMax above the minimum session length
EligibleDay(r) ==
    /\ run[r].pc \in {"main", "ext"}
    /\ run[r].pc = "main" =>
           /\ run[r].day_offset <= run[r].days_left
           /\ DayOf(r) >= DateOf(window_start(run[r].exam))
    /\ run[r].pc = "ext" =>
           run[r].day_offset < Min2(EXT_LIMIT, run[r].days_left + 1)
    /\ DayOf(r) >= DateOf(now)
    /\ ~\E e \in run[r].events : e.all_day /\ DateOf(e.start) = DayOf(r)
    /\ ~weekend_skipped(DayOf(r))
    /\ run[r].new_scheduled < run[r].hours_left
    /\ TodayMax(r) > SESSION

\* the interval from the preferred time that lasts todayMax, clipped at 22:00
PreferredSlot(r) ==
    <<preferred_start(DayOf(r)),
      Min2(preferred_start(DayOf(r)) + TodayMax(r), Combine(DayOf(r), DAY_END))>>

\* the end of an event; an event without one is instantaneous
EndOf(e) == IF e.end = None THEN e.start ELSE e.end

\* an interval keeps the buffer to every event of the day in the working set
KeepsBuffer(r, slot) ==
    \A e \in run[r].events :
        DateOf(e.start) = DayOf(r) =>
            slot[2] <= e.start - BUFFER \/ slot[1] >= EndOf(e) + BUFFER

PreferredFits(r) ==
    /\ PreferredSlot(r)[2] - PreferredSlot(r)[1] >= SESSION
    /\ KeepsBuffer(r, PreferredSlot(r))

\* the run takes a step of its own, and it is not its worker dying
Steps(r) == run'[r] # run[r] /\ run'[r].pc \notin {"crashed", "idle"}

\* the step creates exactly one block, for the run's exam, on the interval
CreatesOn(r, slot, kind) ==
    /\ Len(run'[r].created) = Len(run[r].created) + 1
    /\ LET c == run'[r].created[Len(run'[r].created)]
       IN  /\ c.kind = kind
           /\ c.block.exam_id = run[r].exam.id
           /\ c.block.start = slot[1]
           /\ c.block.end = slot[2]
           /\ c.block \in db'
           /\ db' \ db = {c.block}

\* C21: on an eligible day whose preferred slot - from the preferred time,
\* lasting todayMax, clipped at 22:00 - is at least half an hour long and keeps
\* the buffer to every event of the day, the run creates exactly one block, on
\* exactly that interval, in the preferred-slot attempt.
C21_PreferredFirst ==
    [][\A r \in Workers :
          (EligibleDay(r) /\ PreferredFits(r) /\ Steps(r)) =>
              CreatesOn(r, PreferredSlot(r), "preferred")]_vars

\* the longest duration among the free slots of the day a run evaluates next
LongestFree(r) ==
    LET slots == free_slots(run[r].events, DayOf(r))
    IN  IF slots = <<>> THEN 0
        ELSE MaxOf({slots[i][2] - slots[i][1] : i \in DOMAIN slots})

\* the blocks a run has created for one exam that start on one day
CreatedOn(created, exam_id, day) ==
    {i \in DOMAIN created :
        created[i].block.exam_id = exam_id /\ DateOf(created[i].block.start) = day}

\* C22: on an eligible day whose preferred slot is unavailable or too short
\* the run creates at most one block for the exam; if the longest free slot
\* of the day is at least half an hour long, the block starts where that slot
\* starts and lasts min(slot duration, hours remaining - scheduled,
\* todayMax); the day never gets a second block of the run for the exam.
C22_LargestFreeSlot ==
    [][\A r \in Workers :
          (EligibleDay(r) /\ ~PreferredFits(r) /\ Steps(r)) =>
              LET slots == free_slots(run[r].events, DayOf(r))
                  length == Min2(LongestFree(r),
                                 Min2(run[r].hours_left - run[r].new_scheduled,
                                      TodayMax(r)))
              IN  /\ Len(run'[r].created) <= Len(run[r].created) + 1
                  /\ Cardinality(CreatedOn(run'[r].created, run[r].exam.id,
                                           DayOf(r))) <= 1
                  /\ LongestFree(r) >= SESSION =>
                         \E i \in DOMAIN slots :
                             /\ slots[i][2] - slots[i][1] = LongestFree(r)
                             /\ CreatesOn(r, <<slots[i][1], slots[i][1] + length>>,
                                          "general")]_vars

----------------------------------------------------------------------------
(* free_slots *)

\* the events free_slots was called with that start on the day of the call
ProbedEvents == {e \in EventsOfUser(db) : DateOf(e.start) = probe.day}

\* C23: every slot that free_slots returns has its start strictly before
\* its end.
C23_PositiveSlots ==
    probe.called =>
        \A i \in DOMAIN probe.slots : probe.slots[i][1] < probe.slots[i][2]

\* C24: every slot that free_slots returns lies within 08:00-22:00 of the
\* day, the slots are in ascending order and pairwise disjoint, and every
\* slot is at least 30 minutes away from every event that starts on the day.
C24_SlotsWithinDay ==
    probe.called =>
        /\ \A i \in DOMAIN probe.slots :
               /\ Combine(probe.day, DAY_START) <= probe.slots[i][1]
               /\ probe.slots[i][2] <= Combine(probe.day, DAY_END)
        /\ \A i, j \in DOMAIN probe.slots :
               i < j => probe.slots[i][2] <= probe.slots[j][1]
        /\ \A i \in DOMAIN probe.slots : \A e \in ProbedEvents :
               \/ probe.slots[i][2] <= e.start - BUFFER
               \/ probe.slots[i][1] >= e.end + BUFFER

\* the events without an end that start on a day before a run's exam
Endless(r) ==
    {e \in Loaded(r) : e.end = None /\ \E x \in Loaded(r) :
        x.priority \in DOMAIN priority_settings
                  /\ x.start > now /\ DateOf(e.start) < DateOf(x.start)
                  /\ DateOf(e.start) >= DateOf(now)}

\* C25: a run over a calendar that holds an event without an end on a
\* candidate day completes normally: no exception leaves it.
C25_NoEndCompletes ==
    \A r \in Workers : Endless(r) # {} => run[r].pc # "raised"

----------------------------------------------------------------------------
(* The budget of an exam *)

\* C26: at every point of a run the blocks it has created for an exam sum
\* to at most the exam's remaining hours, each of them lasts at least half an
\* hour, and the summary of a completed run counts the blocks created and
\* adds up their durations.
C26_Budget ==
    \A r \in Workers :
        /\ \A b \in CreatedBlocks(r) :
               /\ Duration(b) >= SESSION
               /\ ScheduledFor(r, ExamOf(r, b))
                      <= RemainingHours(Loaded(r), ExamOf(r, b))
        /\ Finished(r) =>
               /\ run[r].summary.blocks_added = Len(run[r].created)
               /\ run[r].summary.hours_added = SumDuration(CreatedBlocks(r))

\* the days before an exam that a run may use: not before today, at most 21
\* days before the exam, not an excluded weekend day
UsableDays(e) ==
    {d \in DateOf(now)..(DateOf(e.start) - 1) :
        DateOf(e.start) - d <= EXT_LIMIT - 1 /\ ~weekend_skipped(d)}

\* the calendar a run loaded is free for an exam: nothing else of the user
\* starts or ends on a usable day, the usable days can take the remaining
\* hours, and a full daily allowance from the preferred time ends by 22:00
FreeCalendar(r, e) ==
    /\ RemainingHours(Loaded(r), e) > 0
    /\ \A x \in Loaded(r) \ {e} :
           /\ DateOf(x.start) \notin UsableDays(e)
           /\ DateOf(EndOf(x)) \notin UsableDays(e)
    /\ Cardinality(UsableDays(e)) * priority_settings[e.priority].max_hours_per_day
           >= RemainingHours(Loaded(r), e)
    /\ settings.preferred_learning_time
           + priority_settings[e.priority].max_hours_per_day <= DAY_END

\* C27: after a completed run an exam with remaining hours H > 0 whose
\* usable days are free and large enough has exactly H hours of new blocks
\* and an outcome entry that says success.
C27_Completeness ==
    \A r \in Workers :
        Finished(r) =>
            \A e \in {x \in Loaded(r) : x.priority \in DOMAIN priority_settings
                                          /\ x.start > now} :
                FreeCalendar(r, e) =>
                    /\ ScheduledFor(r, e) = RemainingHours(Loaded(r), e)
                    /\ \E s \in run[r].successes : s.title = e.title /\ s.ok

\* C28: every block a run has created starts at or after now, the instant of
\* the run, so that no run at the same instant counts it among the blocks
\* already done.
C28_NotInThePast ==
    \A r \in Workers :
        \A b \in CreatedBlocks(r) :
            /\ b.start >= now
            /\ b \in db => b \notin past_blocks(EventsOfUser(db), ExamOf(r, b))

----------------------------------------------------------------------------
(* Blocks the user has edited *)

\* the step is update_event
UpdateStep == Quiet /\ nOps' = nOps + 1 /\ now' = now

\* the study blocks of the user that are locked: update_event is the only
\* operation that locks a row with an exam_id
EditedBlocks(rows) == {b \in EventsOfUser(rows) : b.exam_id # NoId /\ b.locked}

\* C29: the single-event update of a block that a run created leaves the
\* block locked, with its exam_id; from then on no step removes or changes
\* it; and while it starts at or after now and before its exam, a run that
\* works on the exam has its duration subtracted from the hours to schedule.
C29_EditedBlockProtected ==
    [][/\ UpdateStep =>
              \A b \in EventsOfUser(db) \ db' :
                  b.exam_id # NoId =>
                      \E x \in db' : /\ x.id = b.id /\ x.locked
                                      /\ x.exam_id = b.exam_id
       /\ \A b \in EditedBlocks(db) : UpdateStep \/ b \in db'
       /\ \A r \in Workers : \A b \in EditedBlocks(run[r].events) :
              (/\ run[r].pc \in {"main", "ext", "finish"}
               /\ b.exam_id = run[r].exam.id
               /\ b.start >= now
               /\ b.start < run[r].exam.start) =>
                  run[r].hours_left <=
                      Max2(0, priority_settings[run[r].exam.priority].total_hours_to_learn
                               - Duration(b))]_vars

----------------------------------------------------------------------------
(* Runs at the same time *)

\* the user's study blocks in the store
StoredBlocks == {b \in EventsOfUser(db) : b.exam_id # NoId}

\* two runs have completed that both loaded the calendar before the other
\* had committed a block
Interleaved ==
    \E r1, r2 \in Workers :
        /\ r1 # r2
        /\ Finished(r1) /\ Finished(r2)
        /\ run[r1].db0 = run[r2].db0

\* C30: after two interleaved runs of the same user the stored study blocks
\* of an exam on one day sum to at most max_hours_per_day, no two stored
\* study blocks are closer than 30 minutes, and no block is stored twice.
C30_InterleavedRuns ==
    Interleaved =>
        /\ \A b \in StoredBlocks :
               SumDuration({x \in StoredBlocks :
                               /\ x.exam_id = b.exam_id
                               /\ DateOf(x.start) = DateOf(b.start)})
                   <= priority_settings[ExamOf("w1", b).priority].max_hours_per_day
        /\ \A b1, b2 \in StoredBlocks : b1.id # b2.id => Apart(b1, b2)
        /\ \A b1, b2 \in StoredBlocks :
               (/\ b1.exam_id = b2.exam_id
                /\ b1.start = b2.start
                /\ b1.end = b2.end) => b1.id = b2.id

====
